---- MODULE Spec2Model ----
(***************************************************************************)
(* The Zeeguu API endpoints (zeeguu/api/endpoints.py) as a state machine.  *)
(*                                                                         *)
(* The state is the committed content of the backing store (db), the       *)
(* clock (now), and the requests in flight (flight).  A                    *)
(* request handler runs on a private copy of the store (the SQLAlchemy     *)
(* unit of work of the request); only zeeguu.db.session.commit() writes    *)
(* that copy back, and a request that ends without a commit leaves the     *)
(* committed store as it found it.                                         *)
(*                                                                         *)
(* Spec serves one request at a time.  ConcurrentSpec serves lookups and   *)
(* contributions on two workers, each in two steps: the body of the view   *)
(* on the store as the worker finds it, and later its commit.              *)
(***************************************************************************)
EXTENDS Integers, Sequences, FiniteSets, TLC

(***************************************************************************)
(* Bounds of the model.                                                    *)
(***************************************************************************)
\* The clock is read at most MaxTime times (every read returns a later time).
MaxTime == 4

(***************************************************************************)
(* Input domains.                                                          *)
(***************************************************************************)
\* The languages of the store, and the language codes a request may name.
available_languages_list == <<"en", "de">>
Languages == {available_languages_list[i] : i \in 1..Len(available_languages_list)}
\* The codes a request that sets a language may name.
LanguageCodes == {"de", "xx"}
\* The language id of a user who has not chosen a language.
NoLanguage == "none"

\* Addresses a registration may name; "bad" is no address.
Emails == {"a@x", "b@x", "bad"}
\* The password of every registration, and the passwords a login may try.
RegistrationPasswords == {"p"}
Passwords == RegistrationPasswords \cup {"q"}

\* Path segments naming a word: strings, as sequences of characters.
Terms == {<<"+">>, <<" ">>}
Translations == {<<"k">>}
\* The (source language, target language) pairs of lookups and contributions
\* that name known languages, and pairs that name an unknown one.
LanguagePairs == {<<"en", "de">>, <<"en", "en">>, <<"de", "de">>}
BadLanguagePairs == {<<"xx", "de">>, <<"en", "xx">>}

\* An optional request parameter: <<>> when absent, <<v>> when present.
Optional(S) == {<<>>} \cup {<<v>> : v \in S}

\* The request form of a contribution with every field, and of a lookup.
FullForm == [title |-> <<"t">>, url |-> <<"http://x">>, context |-> <<"ctx">>, text |-> <<>>]
EmptyForm == [title |-> <<>>, url |-> <<>>, context |-> <<>>, text |-> <<>>]

(***************************************************************************)
(* int() and str() on session ids.                                         *)
(***************************************************************************)
Digits == <<"0", "1", "2", "3", "4", "5", "6", "7", "8", "9">>
IsDigit(c) == \E i \in 1..Len(Digits) : Digits[i] = c
DigitValue(c) == (CHOOSE i \in 1..Len(Digits) : Digits[i] = c) - 1

RECURSIVE StripLeft(_)
StripLeft(s) == IF s # <<>> /\ Head(s) = " " THEN StripLeft(Tail(s)) ELSE s
RECURSIVE StripRight(_)
StripRight(s) ==
    IF s # <<>> /\ s[Len(s)] = " " THEN StripRight(SubSeq(s, 1, Len(s) - 1)) ELSE s
Strip(s) == StripRight(StripLeft(s))

RECURSIVE DigitsValue(_)
DigitsValue(s) ==
    IF s = <<>> THEN 0
    ELSE 10 * DigitsValue(SubSeq(s, 1, Len(s) - 1)) + DigitValue(s[Len(s)])

\* int(s) of Python: surrounding blanks are dropped, a sign is allowed, and
\* what is left must be a non-empty run of digits.  [ok |-> FALSE] stands for
\* the ValueError.
int(s) ==
    LET t == Strip(s)
        signed == t # <<>> /\ Head(t) \in {"-", "+"}
        d == IF signed THEN Tail(t) ELSE t
    IN  IF d = <<>> \/ \E i \in 1..Len(d) : ~IsDigit(d[i])
        THEN [ok |-> FALSE, value |-> 0]
        ELSE [ok |-> TRUE,
              value |-> IF signed /\ Head(t) = "-" THEN 0 - DigitsValue(d)
                        ELSE DigitsValue(d)]

\* str(n) of an integer.
RECURSIVE str(_)
str(n) ==
    IF n < 0 THEN <<"-">> \o str(0 - n)
    ELSE IF n < 10 THEN <<Digits[n + 1]>>
    ELSE str(n \div 10) \o <<Digits[(n % 10) + 1]>>

\* The values of the `session` query parameter a request may carry.
\* The ids Session.for_user draws from, and the session parameters sent: the
\* ids as get_session prints them, an id no session has, a blank before an
\* id, and what is no integer.
SessionIds == {0, 1}
SessionArgs ==
    Optional({str(i) : i \in SessionIds} \cup {<<"7">>, <<" ", "0">>, <<"x">>})

\* decode_word: every "+" of the term becomes a blank.
decode_word(word) == [i \in 1..Len(word) |-> IF word[i] = "+" THEN " " ELSE word[i]]

VARIABLES
    db,     \* the committed store: the tables, each a sequence of rows
    now,    \* the latest time the store has seen; the clock reads later
    flight  \* per worker, the request it is serving and its unit of work

vars == <<db, now, flight>>

(***************************************************************************)
(* The store.  Every table is a sequence of rows; the id of a row is its   *)
(* position, and 0 stands for None.  Sessions carry the id they were given. *)
(***************************************************************************)
EmptyStore ==
    [users |-> <<>>, sessions |-> {}, words |-> <<>>, urls |-> <<>>,
     texts |-> <<>>, searches |-> <<>>, contributions |-> <<>>]

\* zeeguu.db.session: the unit of work of one request.  `pending` is what
\* the request sees and changes, `committed` is what the store holds.
Begin(d) == [committed |-> d, pending |-> d]

\* zeeguu.db.session.commit()
commit(tx) == [committed |-> tx.pending, pending |-> tx.pending]

\* The result of a view: the unit of work it leaves, and the response.
\* `cors` tells whether the response carries Access-Control-Allow-Origin.
\* `clock` tells whether the request has read the clock.
Return(tx, body) ==
    [tx |-> tx, status |-> 200, body |-> body, cors |-> FALSE, clock |-> FALSE]
\* flask.abort(code), and an exception nobody catches (code 500).
abort(tx, code) ==
    [tx |-> tx, status |-> code, body |-> <<>>, cors |-> FALSE, clock |-> FALSE]

(***************************************************************************)
(* zeeguu.model, as endpoints.py uses it.                                  *)
(***************************************************************************)
\* The credential a User row keeps for a password.
password_hash(password) == <<"hash", password>>

\* model.User(email, password) raises ValueError for what is no address.
valid_email(email) == email \in {"a@x", "b@x"}
User(email, password) ==
    [email |-> email, password |-> password_hash(password),
     learned_language_id |-> NoLanguage, native_language_id |-> NoLanguage]

\* The uniqueness constraint on User.email (IntegrityError at the commit).
email_taken(d, email) == \E u \in 1..Len(d.users) : d.users[u].email = email

\* model.User.authorize(email, password): the user, or 0 for None.
authorize(d, email, password) ==
    LET found == {u \in 1..Len(d.users) :
                    /\ d.users[u].email = email
                    /\ d.users[u].password = password_hash(password)}
    IN  IF found = {} THEN 0 ELSE CHOOSE u \in found : TRUE

\* model.Session.for_user(user): a session under an id no session has.
free_session_ids(d) == SessionIds \ {s.id : s \in d.sessions}
for_user(user, id, t) == [id |-> id, user |-> user, last_use |-> t]

\* model.Session.query.get(session_id): the set holding the session, or {}.
Session_get(d, session_id) == {s \in d.sessions : s.id = session_id}

\* session.update_use_date()
update_use_date(d, session_id, t) ==
    [d EXCEPT !.sessions =
        {IF s.id = session_id THEN [s EXCEPT !.last_use = t] ELSE s : s \in @}]

\* model.Language.find(code): the language, or NoLanguage when there is none
\* (the call raises).
Language_find(code) == IF code \in Languages THEN code ELSE NoLanguage

\* user.set_learned_language(code), user.set_native_language(code)
set_learned_language(d, user, language) ==
    [d EXCEPT !.users[user].learned_language_id = language]
set_native_language(d, user, language) ==
    [d EXCEPT !.users[user].native_language_id = language]

\* The least element of a set of row ids, 0 for the empty set.
First(ids) == IF ids = {} THEN 0 ELSE CHOOSE i \in ids : \A j \in ids : i <= j
\* The greatest element of a set of row ids, 0 for the empty set.
Last(ids) == IF ids = {} THEN 0 ELSE CHOOSE i \in ids : \A j \in ids : j <= i

\* model.Word.find(word, language): the row of that word, made when missing.
Word_find(d, word, language) ==
    LET row == [word |-> word, language |-> language]
        at == First({i \in 1..Len(d.words) : d.words[i] = row})
    IN  IF at # 0 THEN [d |-> d, id |-> at]
        ELSE [d |-> [d EXCEPT !.words = Append(@, row)], id |-> Len(d.words) + 1]

\* model.Url.find(url, title): the row of that address, made when missing.
Url_find(d, url, title) ==
    LET at == First({i \in 1..Len(d.urls) : d.urls[i].url = url})
    IN  IF at # 0 THEN [d |-> d, id |-> at]
        ELSE [d |-> [d EXCEPT !.urls = Append(@, [url |-> url, title |-> title])],
              id |-> Len(d.urls) + 1]

\* model.Text(content, language, url): a new row; url is 0 for None.
Text(d, content, language, url) ==
    [d |-> [d EXCEPT !.texts =
                Append(@, [content |-> content, language |-> language, url |-> url])],
     id |-> Len(d.texts) + 1]

\* model.Text.find(content, language)
Text_find(d, content, language) == Text(d, content, language, 0)

\* model.Search(user, word, language, text), appended to user.searches.
Search(user, word, language, text) ==
    [user |-> user, word |-> word, language |-> language, text |-> text,
     contribution |-> 0]

\* model.Contribution(origin, translation, user, text, time)
Contribution(origin, translation, user, text, time) ==
    [origin |-> origin, translation |-> translation, user |-> user,
     text |-> text, time |-> time]

(***************************************************************************)
(* The decorators.                                                         *)
(***************************************************************************)
\* with_session, were a request without session parameter taken for one with
\* the parameter 0.
with_session_default(tx, session, t) ==
    LET session_id == IF session = <<>> THEN [ok |-> TRUE, value |-> 0]
                      ELSE int(session[1])
        found == IF session_id.ok THEN Session_get(tx.pending, session_id.value)
                 ELSE {}
    IN  IF found = {} THEN [passed |-> FALSE, user |-> 0, tx |-> tx]
        ELSE LET s == CHOOSE s \in found : TRUE
             IN  [passed |-> TRUE, user |-> s.user,
                  tx |-> [tx EXCEPT !.pending = update_use_date(@, s.id, t)]]

\* with_session, up to the call of the view: the session named by the
\* `session` query parameter, its user in flask.g.user, its use date set.
with_session(tx, session, t) ==
    LET session_id == IF session = <<>> THEN [ok |-> FALSE, value |-> 0]
                      ELSE int(session[1])
        found == IF session_id.ok THEN Session_get(tx.pending, session_id.value)
                 ELSE {}
    IN  IF found = {} THEN [passed |-> FALSE, user |-> 0, tx |-> tx]
        ELSE LET s == CHOOSE s \in found : TRUE
             IN  [passed |-> TRUE, user |-> s.user,
                  tx |-> [tx EXCEPT !.pending = update_use_date(@, s.id, t)]]

\* The 401 of with_session.
unauthorized(tx) == abort(tx, 401)

\* A request that got a time from the clock (update_use_date, for_user).
read_clock(r) == [r EXCEPT !.clock = TRUE]

\* cross_domain: the header is set on what the view returns; an exception
\* raised by the view passes through.
cross_domain(r) == IF r.status = 200 THEN [r EXCEPT !.cors = TRUE] ELSE r

(***************************************************************************)
(* The views.  `user` is flask.g.user.                                     *)
(***************************************************************************)
\* A view that returns None makes flask.make_response raise.
learned_language(tx, user) ==
    LET id == tx.pending.users[user].learned_language_id
    IN  IF id = NoLanguage THEN abort(tx, 500) ELSE Return(tx, <<id>>)

learned_language_set(tx, user, language_code) ==
    LET language == Language_find(language_code)
    IN  IF language = NoLanguage THEN abort(tx, 500)
        ELSE Return(commit([tx EXCEPT !.pending = set_learned_language(@, user, language)]),
                    <<"OK">>)

native_language(tx, user) ==
    LET id == tx.pending.users[user].native_language_id
    IN  IF id = NoLanguage THEN abort(tx, 500) ELSE Return(tx, <<id>>)

learned_and_native_language(tx, user) ==
    Return(tx, <<tx.pending.users[user].native_language_id,
                 tx.pending.users[user].learned_language_id>>)

native_language_set(tx, user, language_code) ==
    LET language == Language_find(language_code)
    IN  IF language = NoLanguage THEN abort(tx, 500)
        ELSE Return(commit([tx EXCEPT !.pending = set_native_language(@, user, language)]),
                    <<"OK">>)

available_languages(tx) == Return(tx, available_languages_list)

\* The token, were it the same for every session.
session_token_fixed(session) == str(0)

\* The token, were it the id of the user.
session_token_of_user(session) == str(session.user)

\* str(session.id), the token get_session returns.
session_token(session) == str(session.id)

\* get_session, were the user looked up by the email alone.
get_session_by_email(tx, email, password, id, t, fault) ==
    IF password = <<>> THEN cross_domain(abort(tx, 400))
    ELSE LET user == First({u \in 1..Len(tx.pending.users) :
                              tx.pending.users[u].email = email})
         IN  IF user = 0 THEN cross_domain(abort(tx, 401))
             ELSE LET session == for_user(user, id, t)
                      added == [tx EXCEPT !.pending.sessions = @ \cup {session}]
                  IN  IF fault # "none"
                      THEN cross_domain(read_clock(abort(added, 500)))
                      ELSE cross_domain(read_clock(Return(commit(added), session_token(session))))

\* get_session: `id` is the id Session.for_user draws.
get_session(tx, email, password, id, t, fault) ==
    IF password = <<>> THEN cross_domain(abort(tx, 400))
    ELSE LET user == authorize(tx.pending, email, password[1])
         IN  IF user = 0 THEN cross_domain(abort(tx, 401))
             ELSE LET session == for_user(user, id, t)
                      added == [tx EXCEPT !.pending.sessions = @ \cup {session}]
                  IN  IF fault # "none"
                      THEN cross_domain(read_clock(abort(added, 500)))
                      ELSE cross_domain(read_clock(Return(commit(added), session_token(session))))

\* add_user, were the IntegrityError of a taken email not raised.
add_user_unchecked(tx, email, password, id, t, fault) ==
    IF password = <<>> THEN cross_domain(abort(tx, 400))
    ELSE IF ~valid_email(email) THEN cross_domain(abort(tx, 400))
    ELSE LET added == [tx EXCEPT !.pending.users = Append(@, User(email, password[1]))]
         IN  IF fault = "user_commit" THEN cross_domain(abort(added, 500))
             ELSE cross_domain(get_session(commit(added), email, password, id, t,
                                           IF fault = "session_commit" THEN "commit"
                                           ELSE "none"))

\* add_user: the user is committed, then get_session is called.
add_user(tx, email, password, id, t, fault) ==
    IF password = <<>> THEN cross_domain(abort(tx, 400))
    ELSE IF ~valid_email(email) THEN cross_domain(abort(tx, 400))
    ELSE LET added == [tx EXCEPT !.pending.users = Append(@, User(email, password[1]))]
         IN  IF email_taken(tx.pending, email) THEN cross_domain(abort(added, 400))
             ELSE IF fault = "user_commit" THEN cross_domain(abort(added, 500))
             ELSE cross_domain(get_session(commit(added), email, password, id, t,
                                           IF fault = "session_commit" THEN "commit"
                                           ELSE "none"))

\* The contributions of the user, oldest first.
contribs_chronologically(d, user) ==
    SelectSeq(d.contributions, LAMBDA c : c.user = user)

contributions(tx, user) ==
    LET contribs == contribs_chronologically(tx.pending, user)
    IN  Return(tx, [i \in 1..Len(contribs) |->
                      <<tx.pending.words[contribs[i].origin].word,
                        tx.pending.words[contribs[i].translation].word>>])

studied_words(tx, user) ==
    LET contribs == contribs_chronologically(tx.pending, user)
    IN  Return(tx, [i \in 1..Len(contribs) |-> tx.pending.words[contribs[i].origin].word])

contributions_by_day(tx, user, return_context) ==
    LET contribs == contribs_chronologically(tx.pending, user)
        d == tx.pending
    IN  Return(tx, [i \in 1..Len(contribs) |->
                      <<d.words[contribs[i].origin].word,
                        d.words[contribs[i].translation].word,
                        <<d.urls[d.texts[contribs[i].text].url].url>>,
                        IF return_context = "with_context"
                        THEN <<d.texts[contribs[i].text].content>> ELSE <<>> >>])

validate(tx) == Return(tx, <<"OK">>)

\* get_page: `page` is what the address answers, <<>> when opening it fails.
get_page(tx, page) == IF page = <<>> THEN abort(tx, 500) ELSE Return(tx, page)

\* The query, were the user left out of the filter.
search_query_any_user(d, user, word, language) ==
    Last({i \in 1..Len(d.searches) :
            /\ d.searches[i].word = word
            /\ d.searches[i].language = language})

\* The query, were the target language left out of the filter.
search_query_any_language(d, user, word, language) ==
    Last({i \in 1..Len(d.searches) :
            /\ d.searches[i].user = user
            /\ d.searches[i].word = word})

\* The query, were the searches ordered by ascending id.
search_query_oldest(d, user, word, language) ==
    First({i \in 1..Len(d.searches) :
            /\ d.searches[i].user = user
            /\ d.searches[i].word = word
            /\ d.searches[i].language = language})

\* The query of contribute_with_context: the search of the user for the word
\* and the language with the greatest id, 0 when there is none.
search_query(d, user, word, language) ==
    Last({i \in 1..Len(d.searches) :
            /\ d.searches[i].user = user
            /\ d.searches[i].word = word
            /\ d.searches[i].language = language})

\* The Text of a contribution, were a stored row of the same content,
\* language and url taken for it.
new_text_found(tx, content, language, url) ==
    LET row == [content |-> content, language |-> language, url |-> url]
        at == First({i \in 1..Len(tx.pending.texts) : tx.pending.texts[i] = row})
        text == Text(tx.pending, content, language, url)
    IN  IF at # 0 THEN [tx |-> tx, id |-> at]
        ELSE [tx |-> [tx EXCEPT !.pending = text.d], id |-> text.id]

\* The Text of a contribution, were it committed when it is made.
new_text_committed(tx, content, language, url) ==
    LET text == Text(tx.pending, content, language, url)
    IN  [tx |-> commit([tx EXCEPT !.pending = text.d]), id |-> text.id]

\* "create the text entity first": the Text of a contribution, in the unit of
\* work.
new_text(tx, content, language, url) ==
    LET text == Text(tx.pending, content, language, url)
    IN  [tx |-> [tx EXCEPT !.pending = text.d], id |-> text.id]

\* The contribution, were it always added to the session of the store.
add_contribution_standalone(d, search, contribution) ==
    [d EXCEPT !.contributions = Append(@, contribution)]

\* The contribution goes to the search when there is one, to the session of
\* the store when there is none.
add_contribution(d, search, contribution) ==
    LET stored == [d EXCEPT !.contributions = Append(@, contribution)]
    IN  IF search # 0
        THEN [stored EXCEPT !.searches[search].contribution = Len(stored.contributions)]
        ELSE stored

\* contribute_with_context: `form` holds the optional fields title, url and
\* context of the request form; a missing url or context raises the 400 of
\* flask.request.form[...].
contribute_with_context(tx, user, from_lang_code, term, to_lang_code, translation, form, t, fault) ==
    LET contributed_url_title == IF form.title # <<>> THEN form.title[1] ELSE ""
    IN  IF form.url = <<>> \/ form.context = <<>> THEN abort(tx, 400)
        ELSE
        LET url == Url_find(tx.pending, form.url[1], contributed_url_title)
            from_lang == Language_find(from_lang_code)
            to_lang == Language_find(to_lang_code)
        IN  IF from_lang = NoLanguage \/ to_lang = NoLanguage
            THEN abort([tx EXCEPT !.pending = url.d], 500)
            ELSE
            LET word == Word_find(url.d, decode_word(term), from_lang)
                translated == Word_find(word.d, decode_word(translation), to_lang)
                search == search_query(translated.d, user, word.id, to_lang)
                text == new_text([tx EXCEPT !.pending = translated.d], form.context[1],
                                 from_lang, url.id)
                contribution == Contribution(word.id, translated.id, user, text.id, t)
                done == [text.tx EXCEPT !.pending = add_contribution(@, search, contribution)]
            IN  IF fault # "none" THEN abort(done, 500)
                ELSE Return(commit(done), <<"OK">>)

\* The append, were a search the user has already not added again.
searches_append_once(d, search) ==
    IF \E i \in 1..Len(d.searches) : d.searches[i] = search THEN d
    ELSE [d EXCEPT !.searches = Append(@, search)]

\* user.searches.append(search)
searches_append(d, search) == [d EXCEPT !.searches = Append(@, search)]

\* lookup: to_lang is a language code of the path, or the Language that
\* lookup_preferred passes; form.text is the optional form field text.
lookup(tx, user, from_lang, term, to_lang, form, fault) ==
    LET from_language == Language_find(from_lang)
        to_language == IF to_lang.is_language THEN to_lang.value
                       ELSE Language_find(to_lang.value)
    IN  IF from_language = NoLanguage \/ to_language = NoLanguage THEN abort(tx, 500)
        ELSE
        LET content == form.text
            text == IF content # <<>> THEN Text_find(tx.pending, content[1], from_language)
                    ELSE [d |-> tx.pending, id |-> 0]
            word == Word_find(text.d, decode_word(term), from_language)
            done == [tx EXCEPT !.pending =
                        searches_append(word.d, Search(user, word.id, to_language, text.id))]
        IN  IF fault # "none" THEN abort(done, 500)
            ELSE Return(commit(done), <<"OK">>)

\* A language code of the request path, as an argument of lookup.
code(language_code) == [is_language |-> FALSE, value |-> language_code]

\* /lookup/<from_lang>/<term>/<to_lang> with its decorators.
lookup_route(tx, session, from_lang, term, to_lang, form, t, fault) ==
    LET g == with_session(tx, session, t)
    IN  cross_domain(IF g.passed
                     THEN read_clock(lookup(g.tx, g.user, from_lang, term, to_lang,
                                            form, fault))
                     ELSE unauthorized(tx))

\* lookup_preferred, were the native language passed.
lookup_preferred_native(tx, user, session, from_lang, term, form, t, fault) ==
    LET native == tx.pending.users[user].native_language_id
    IN  lookup_route(tx, session, from_lang, term,
                     [is_language |-> native # NoLanguage, value |-> native],
                     form, t, fault)

\* lookup_preferred calls the decorated lookup with user.learned_language,
\* a Language, or None for a user who has none.
lookup_preferred(tx, user, session, from_lang, term, form, t, fault) ==
    LET learned == tx.pending.users[user].learned_language_id
    IN  lookup_route(tx, session, from_lang, term,
                     [is_language |-> learned # NoLanguage, value |-> learned],
                     form, t, fault)

(***************************************************************************)
(* The requests.  A request names its route (op) and carries the session   *)
(* query parameter, the path segments and the form of the route.  `id` is  *)
(* the id Session.for_user draws, `page` what the fetched address answers, *)
(* and `fault` where the store refuses a commit of the request.            *)
(***************************************************************************)
NoRequest ==
    [op |-> "", session |-> <<>>, email |-> "", password |-> <<>>,
     language_code |-> "", from |-> "", term |-> <<>>, to |-> "",
     translation |-> <<>>, form |-> EmptyForm, return_context |-> "",
     page |-> <<>>, id |-> -1, fault |-> "none"]

\* The routes decorated with @with_session.
ProtectedOps ==
    {"learned_language", "learned_language_set", "native_language",
     "learned_and_native_language", "native_language_set", "available_languages",
     "contributions", "studied_words", "contributions_by_day",
     "contribute_with_context", "lookup", "lookup_preferred", "validate", "get_page"}

\* Requests of a route that takes the session parameter alone.
Plain(op) == {[NoRequest EXCEPT !.op = op, !.session = s] : s \in SessionArgs}

\* Requests that set a language.
LanguageSet(op) ==
    {[NoRequest EXCEPT !.op = op, !.session = s, !.language_code = c] :
        s \in SessionArgs, c \in LanguageCodes}

\* The ids Session.for_user may draw; -1 when every id is taken, and then a
\* request that reaches for_user does not end.
drawn_ids(d) == IF free_session_ids(d) = {} THEN {-1} ELSE free_session_ids(d)

Credentials ==
    {[email |-> e, password |-> <<p>>, fault |-> "none"] : e \in Emails, p \in Passwords}
    \cup {[email |-> "a@x", password |-> <<>>, fault |-> "none"],
          [email |-> "a@x", password |-> <<"p">>, fault |-> "commit"]}

Registrations ==
    {[email |-> e, password |-> <<p>>, fault |-> "none"] :
        e \in Emails, p \in RegistrationPasswords}
    \cup {[email |-> "b@x", password |-> <<>>, fault |-> "none"]}
    \cup {[email |-> e, password |-> <<"p">>, fault |-> f] :
            e \in {"a@x", "b@x"}, f \in {"user_commit", "session_commit"}}

WithCredentials(op, d, S) ==
    {[NoRequest EXCEPT !.op = op, !.email = c.email, !.password = c.password,
                       !.fault = c.fault, !.id = id] :
        c \in S, id \in drawn_ids(d)}

\* What a lookup or a contribution may name: every word of every known pair
\* of languages, and one request for each way of going wrong.
Named ==
    {[from |-> p[1], term |-> w, to |-> p[2], form |-> FullForm, fault |-> "none"] :
        p \in LanguagePairs, w \in Terms}
    \cup {[from |-> p[1], term |-> <<"+">>, to |-> p[2], form |-> FullForm,
           fault |-> "none"] : p \in BadLanguagePairs}
    \cup {[from |-> "en", term |-> <<"+">>, to |-> "de", form |-> FullForm,
           fault |-> "commit"]}

Contributions ==
    {[NoRequest EXCEPT !.op = "contribute_with_context", !.session = s, !.from = n.from,
                       !.term = n.term, !.to = n.to, !.translation = k,
                       !.form = n.form, !.fault = n.fault] :
        s \in SessionArgs, n \in Named, k \in Translations}
    \cup {[NoRequest EXCEPT !.op = "contribute_with_context", !.session = s, !.from = "en",
                            !.term = <<"+">>, !.to = "de", !.translation = <<"k">>,
                            !.form = f] :
            s \in SessionArgs,
            f \in {[FullForm EXCEPT !.title = <<>>], [FullForm EXCEPT !.url = <<>>],
                   [FullForm EXCEPT !.context = <<>>]}}

Lookups ==
    {[NoRequest EXCEPT !.op = "lookup", !.session = s, !.from = n.from, !.term = n.term,
                       !.to = n.to, !.fault = n.fault] :
        s \in SessionArgs, n \in Named}
    \cup {[NoRequest EXCEPT !.op = "lookup", !.session = s, !.from = "en",
                            !.term = <<"+">>, !.to = "de",
                            !.form = [EmptyForm EXCEPT !.text = <<"ctx">>]] :
            s \in SessionArgs}

PreferredLookups ==
    {[NoRequest EXCEPT !.op = "lookup_preferred", !.session = s, !.from = c,
                       !.term = w, !.fault = f] :
        s \in SessionArgs, c \in {"en", "xx"}, w \in {<<"+">>}, f \in {"none", "commit"}}

Pages ==
    {[NoRequest EXCEPT !.op = "get_page", !.session = s, !.page = page] :
        s \in SessionArgs, page \in Optional({"page"})}

ByDay ==
    {[NoRequest EXCEPT !.op = "contributions_by_day", !.session = s,
                       !.return_context = c] :
        s \in SessionArgs, c \in {"with_context", "without"}}

\* The requests of a route that can be made of the store d.
RequestsOf(op, d) ==
    CASE op = "add_user" -> WithCredentials(op, d, Registrations)
      [] op = "get_session" -> WithCredentials(op, d, Credentials)
      [] op \in {"learned_language_set", "native_language_set"} -> LanguageSet(op)
      [] op = "contribute_with_context" -> Contributions
      [] op = "lookup" -> Lookups
      [] op = "lookup_preferred" -> PreferredLookups
      [] op = "get_page" -> Pages
      [] op = "contributions_by_day" -> ByDay
      [] OTHER -> Plain(op)

Ops == ProtectedOps \cup {"add_user", "get_session"}
Requests(d) == UNION {RequestsOf(op, d) : op \in Ops}

(***************************************************************************)
(* The routes: each view under its decorators, as @api.route registers it. *)
(* route_x(d, q, t) is the result of the request q made of the committed   *)
(* store d at time t.                                                      *)
(***************************************************************************)
route_learned_language(d, q, t) ==
    LET g == with_session(Begin(d), q.session, t)
    IN  cross_domain(IF g.passed THEN read_clock(learned_language(g.tx, g.user))
                     ELSE unauthorized(g.tx))

route_learned_language_set(d, q, t) ==
    LET g == with_session(Begin(d), q.session, t)
    IN  cross_domain(IF g.passed THEN read_clock(learned_language_set(g.tx, g.user, q.language_code))
                     ELSE unauthorized(g.tx))

route_native_language(d, q, t) ==
    LET g == with_session(Begin(d), q.session, t)
    IN  cross_domain(IF g.passed THEN read_clock(native_language(g.tx, g.user))
                     ELSE unauthorized(g.tx))

route_learned_and_native_language(d, q, t) ==
    LET g == with_session(Begin(d), q.session, t)
    IN  cross_domain(IF g.passed THEN read_clock(learned_and_native_language(g.tx, g.user))
                     ELSE unauthorized(g.tx))

route_native_language_set(d, q, t) ==
    LET g == with_session(Begin(d), q.session, t)
    IN  cross_domain(IF g.passed THEN read_clock(native_language_set(g.tx, g.user, q.language_code))
                     ELSE unauthorized(g.tx))

route_available_languages(d, q, t) ==
    LET g == with_session(Begin(d), q.session, t)
    IN  cross_domain(IF g.passed THEN read_clock(available_languages(g.tx))
                     ELSE unauthorized(g.tx))

route_contributions(d, q, t) ==
    LET g == with_session(Begin(d), q.session, t)
    IN  cross_domain(IF g.passed THEN read_clock(contributions(g.tx, g.user))
                     ELSE unauthorized(g.tx))

route_studied_words(d, q, t) ==
    LET g == with_session(Begin(d), q.session, t)
    IN  cross_domain(IF g.passed THEN read_clock(studied_words(g.tx, g.user))
                     ELSE unauthorized(g.tx))

route_contributions_by_day(d, q, t) ==
    LET g == with_session(Begin(d), q.session, t)
    IN  cross_domain(IF g.passed THEN read_clock(contributions_by_day(g.tx, g.user, q.return_context))
                     ELSE unauthorized(g.tx))

route_contribute_with_context(d, q, t) ==
    LET g == with_session(Begin(d), q.session, t)
    IN  cross_domain(IF g.passed THEN read_clock(contribute_with_context(g.tx, g.user, q.from, q.term, q.to, q.translation, q.form, t, q.fault))
                     ELSE unauthorized(g.tx))

route_lookup_preferred(d, q, t) ==
    LET g == with_session(Begin(d), q.session, t)
    IN  cross_domain(IF g.passed THEN read_clock(lookup_preferred(g.tx, g.user, q.session, q.from, q.term, q.form, t, q.fault))
                     ELSE unauthorized(g.tx))

route_validate(d, q, t) ==
    LET g == with_session(Begin(d), q.session, t)
    IN  cross_domain(IF g.passed THEN read_clock(validate(g.tx))
                     ELSE unauthorized(g.tx))

route_get_page(d, q, t) ==
    LET g == with_session(Begin(d), q.session, t)
    IN  cross_domain(IF g.passed THEN read_clock(get_page(g.tx, q.page))
                     ELSE unauthorized(g.tx))

route_lookup(d, q, t) ==
    lookup_route(Begin(d), q.session, q.from, q.term, code(q.to), q.form, t, q.fault)

route_add_user(d, q, t) ==
    cross_domain(add_user(Begin(d), q.email, q.password, q.id, t, q.fault))

route_get_session(d, q, t) ==
    get_session(Begin(d), q.email, q.password, q.id, t, q.fault)

\* The dispatch of a request to its route.
handle(d, q, t) ==
    CASE q.op = "learned_language" -> route_learned_language(d, q, t)
      [] q.op = "learned_language_set" -> route_learned_language_set(d, q, t)
      [] q.op = "native_language" -> route_native_language(d, q, t)
      [] q.op = "learned_and_native_language" -> route_learned_and_native_language(d, q, t)
      [] q.op = "native_language_set" -> route_native_language_set(d, q, t)
      [] q.op = "available_languages" -> route_available_languages(d, q, t)
      [] q.op = "add_user" -> route_add_user(d, q, t)
      [] q.op = "get_session" -> route_get_session(d, q, t)
      [] q.op = "contributions" -> route_contributions(d, q, t)
      [] q.op = "studied_words" -> route_studied_words(d, q, t)
      [] q.op = "contributions_by_day" -> route_contributions_by_day(d, q, t)
      [] q.op = "contribute_with_context" -> route_contribute_with_context(d, q, t)
      [] q.op = "lookup" -> route_lookup(d, q, t)
      [] q.op = "lookup_preferred" -> route_lookup_preferred(d, q, t)
      [] q.op = "validate" -> route_validate(d, q, t)
      [] q.op = "get_page" -> route_get_page(d, q, t)

\* Whether the request ends: Session.for_user finds an id.
ends(r, q) == r.clock /\ q.op \in {"add_user", "get_session"} => q.id # -1

\* A request is served while the clock is within its bound, when it ends.
served(q, r) == now < MaxTime /\ ends(r, q)

\* The clock after a request.  The time of a request is seen by later
\* requests only through what it stored, so the clock moves on when the
\* request has stored something.
clock(r) == IF r.clock /\ r.tx.committed # db THEN now + 1 ELSE now

\* The workers that serve requests side by side.
Workers == {1, 2}
\* A worker that serves no request.
Idle == [state |-> "idle", tx |-> Begin(EmptyStore), status |-> 0]

\* One action per route.  At the end of a request what it committed is the
\* store; the rest of its unit of work is dropped.
Request_learned_language ==
    \E q \in RequestsOf("learned_language", db) :
        LET r == route_learned_language(db, q, now + 1)
        IN  /\ served(q, r)
            /\ db' = r.tx.committed
            /\ now' = clock(r)
            /\ UNCHANGED flight

Request_learned_language_set ==
    \E q \in RequestsOf("learned_language_set", db) :
        LET r == route_learned_language_set(db, q, now + 1)
        IN  /\ served(q, r)
            /\ db' = r.tx.committed
            /\ now' = clock(r)
            /\ UNCHANGED flight

Request_native_language ==
    \E q \in RequestsOf("native_language", db) :
        LET r == route_native_language(db, q, now + 1)
        IN  /\ served(q, r)
            /\ db' = r.tx.committed
            /\ now' = clock(r)
            /\ UNCHANGED flight

Request_learned_and_native_language ==
    \E q \in RequestsOf("learned_and_native_language", db) :
        LET r == route_learned_and_native_language(db, q, now + 1)
        IN  /\ served(q, r)
            /\ db' = r.tx.committed
            /\ now' = clock(r)
            /\ UNCHANGED flight

Request_native_language_set ==
    \E q \in RequestsOf("native_language_set", db) :
        LET r == route_native_language_set(db, q, now + 1)
        IN  /\ served(q, r)
            /\ db' = r.tx.committed
            /\ now' = clock(r)
            /\ UNCHANGED flight

Request_available_languages ==
    \E q \in RequestsOf("available_languages", db) :
        LET r == route_available_languages(db, q, now + 1)
        IN  /\ served(q, r)
            /\ db' = r.tx.committed
            /\ now' = clock(r)
            /\ UNCHANGED flight

Request_add_user ==
    \E q \in RequestsOf("add_user", db) :
        LET r == route_add_user(db, q, now + 1)
        IN  /\ served(q, r)
            /\ db' = r.tx.committed
            /\ now' = clock(r)
            /\ UNCHANGED flight

Request_get_session ==
    \E q \in RequestsOf("get_session", db) :
        LET r == route_get_session(db, q, now + 1)
        IN  /\ served(q, r)
            /\ db' = r.tx.committed
            /\ now' = clock(r)
            /\ UNCHANGED flight

Request_contributions ==
    \E q \in RequestsOf("contributions", db) :
        LET r == route_contributions(db, q, now + 1)
        IN  /\ served(q, r)
            /\ db' = r.tx.committed
            /\ now' = clock(r)
            /\ UNCHANGED flight

Request_studied_words ==
    \E q \in RequestsOf("studied_words", db) :
        LET r == route_studied_words(db, q, now + 1)
        IN  /\ served(q, r)
            /\ db' = r.tx.committed
            /\ now' = clock(r)
            /\ UNCHANGED flight

Request_contributions_by_day ==
    \E q \in RequestsOf("contributions_by_day", db) :
        LET r == route_contributions_by_day(db, q, now + 1)
        IN  /\ served(q, r)
            /\ db' = r.tx.committed
            /\ now' = clock(r)
            /\ UNCHANGED flight

Request_contribute_with_context ==
    \E q \in RequestsOf("contribute_with_context", db) :
        LET r == route_contribute_with_context(db, q, now + 1)
        IN  /\ served(q, r)
            /\ db' = r.tx.committed
            /\ now' = clock(r)
            /\ UNCHANGED flight

Request_lookup ==
    \E q \in RequestsOf("lookup", db) :
        LET r == route_lookup(db, q, now + 1)
        IN  /\ served(q, r)
            /\ db' = r.tx.committed
            /\ now' = clock(r)
            /\ UNCHANGED flight

Request_lookup_preferred ==
    \E q \in RequestsOf("lookup_preferred", db) :
        LET r == route_lookup_preferred(db, q, now + 1)
        IN  /\ served(q, r)
            /\ db' = r.tx.committed
            /\ now' = clock(r)
            /\ UNCHANGED flight

Request_validate ==
    \E q \in RequestsOf("validate", db) :
        LET r == route_validate(db, q, now + 1)
        IN  /\ served(q, r)
            /\ db' = r.tx.committed
            /\ now' = clock(r)
            /\ UNCHANGED flight

Request_get_page ==
    \E q \in RequestsOf("get_page", db) :
        LET r == route_get_page(db, q, now + 1)
        IN  /\ served(q, r)
            /\ db' = r.tx.committed
            /\ now' = clock(r)
            /\ UNCHANGED flight

Init ==
    /\ db = EmptyStore
    /\ now = 0
    /\ flight = [w \in Workers |-> Idle]

Next ==
    \/ Request_learned_language
    \/ Request_learned_language_set
    \/ Request_native_language
    \/ Request_learned_and_native_language
    \/ Request_native_language_set
    \/ Request_available_languages
    \/ Request_add_user
    \/ Request_get_session
    \/ Request_contributions
    \/ Request_studied_words
    \/ Request_contributions_by_day
    \/ Request_contribute_with_context
    \/ Request_lookup
    \/ Request_lookup_preferred
    \/ Request_validate
    \/ Request_get_page

Spec == Init /\ [][Next]_vars

(***************************************************************************)
(* Two workers, each serving one request.  A worker runs the body of       *)
(* lookup or of contribute_with_context on the store as it finds it, and   *)
(* commits in a later step (Finish); the other worker may start and commit *)
(* in between.                                                             *)
(***************************************************************************)
\* The rows a unit of work has added to a table it found as `found`.
added_rows(found, pending) == SubSeq(pending, Len(found) + 1, Len(pending))

\* The id under which the store keeps a row of a unit of work: a row the
\* request found keeps its id, a row it made is inserted behind the rows the
\* table holds at the commit.  0 (None) stays 0.
stored_id(id, found, held) ==
    IF id > Len(found) THEN id + (Len(held) - Len(found)) ELSE id

\* The commit of a unit of work that was begun on tx.committed, into the
\* store d: its new rows are inserted, the links and the use dates it has
\* set are updated.
flush(d, tx) ==
    LET base == tx.committed
        pend == tx.pending
        W(i) == stored_id(i, base.words, d.words)
        U(i) == stored_id(i, base.urls, d.urls)
        T(i) == stored_id(i, base.texts, d.texts)
        C(i) == stored_id(i, base.contributions, d.contributions)
        texts == added_rows(base.texts, pend.texts)
        contribs == added_rows(base.contributions, pend.contributions)
        searches == added_rows(base.searches, pend.searches)
        used == {s \in pend.sessions : s \notin base.sessions}
    IN  [d EXCEPT
           !.words = @ \o added_rows(base.words, pend.words),
           !.urls = @ \o added_rows(base.urls, pend.urls),
           !.texts = @ \o [i \in 1..Len(texts) |-> [texts[i] EXCEPT !.url = U(@)]],
           !.contributions = @ \o
               [i \in 1..Len(contribs) |->
                   [contribs[i] EXCEPT !.origin = W(@), !.translation = W(@), !.text = T(@)]],
           !.searches =
               [i \in 1..Len(@) |->
                   IF i <= Len(base.searches)
                      /\ pend.searches[i].contribution # base.searches[i].contribution
                   THEN [@[i] EXCEPT !.contribution = C(pend.searches[i].contribution)]
                   ELSE @[i]]
               \o [i \in 1..Len(searches) |->
                       [searches[i] EXCEPT !.word = W(@), !.text = T(@),
                                           !.contribution = C(@)]],
           !.sessions =
               {IF \E u \in used : u.id = s.id
                THEN CHOOSE u \in used : u.id = s.id ELSE s : s \in @}]

\* A row the unit of work inserts is one the store holds by now: a Word of
\* the same text and language, or a Url of the same address.
unique_violation(d, tx) ==
    LET words == added_rows(tx.committed.words, tx.pending.words)
        urls == added_rows(tx.committed.urls, tx.pending.urls)
    IN  \/ \E i \in 1..Len(words) : \E j \in 1..Len(d.words) : d.words[j] = words[i]
        \/ \E i \in 1..Len(urls) : \E j \in 1..Len(d.urls) : d.urls[j].url = urls[i].url

\* A worker runs lookup up to its commit (line 400).
Start_lookup ==
    \E w \in Workers : \E q \in RequestsOf("lookup", db) :
        LET r == route_lookup(db, q, now + 1)
            body == route_lookup(db, [q EXCEPT !.fault = "commit"], now + 1)
        IN  /\ now < MaxTime
            /\ flight[w] = Idle
            /\ q.fault = "none"
            /\ r.status = 200
            /\ flight' = [flight EXCEPT ![w] = [state |-> "running", tx |-> body.tx,
                                                status |-> 0]]
            /\ now' = now + 1
            /\ UNCHANGED db

\* A worker runs contribute_with_context up to its commit (line 366).
Start_contribute_with_context ==
    \E w \in Workers : \E q \in RequestsOf("contribute_with_context", db) :
        LET r == route_contribute_with_context(db, q, now + 1)
            body == route_contribute_with_context(db, [q EXCEPT !.fault = "commit"], now + 1)
        IN  /\ now < MaxTime
            /\ flight[w] = Idle
            /\ q.fault = "none"
            /\ r.status = 200
            /\ flight' = [flight EXCEPT ![w] = [state |-> "running", tx |-> body.tx,
                                                status |-> 0]]
            /\ now' = now + 1
            /\ UNCHANGED db

\* The commit of a worker.  Whether the store enforces uniqueness of Word and
\* Url rows is not decided by endpoints.py: when it does, the commit of a row
\* the store holds already raises IntegrityError, which neither view catches.
Finish ==
    \E w \in Workers : \E enforced \in BOOLEAN :
        LET failed == enforced /\ unique_violation(db, flight[w].tx)
        IN  /\ flight[w].state = "running"
            /\ db' = IF failed THEN db ELSE flush(db, flight[w].tx)
            /\ flight' = [flight EXCEPT ![w].state = "done",
                                        ![w].status = IF failed THEN 500 ELSE 200,
                                        ![w].tx = Begin(EmptyStore)]
            /\ UNCHANGED now

ConcurrentNext ==
    \/ Request_add_user
    \/ Start_lookup
    \/ Start_contribute_with_context
    \/ Finish

ConcurrentSpec == Init /\ [][ConcurrentNext]_vars

(***************************************************************************)
(* Properties.  They speak of every request that can be made of a          *)
(* reachable store: Result(q) is the result of the request q in the        *)
(* current state, After(q) the store it leaves.                            *)
(***************************************************************************)
Result(q) == handle(db, q, now + 1)
After(q) == Result(q).tx.committed
Ended(q) == ends(Result(q), q)
RequestTime == now + 1

\* The stored sessions a session parameter names: none when the parameter is
\* absent, is no integer, or is the id of no stored session.
NamedSessions(d, session) ==
    IF session = <<>> THEN {}
    ELSE IF ~int(session[1]).ok THEN {}
    ELSE {x \in d.sessions : x.id = int(session[1]).value}
\* The user of the session a request presents, 0 when it presents none.
Caller(d, q) ==
    IF NamedSessions(d, q.session) = {} THEN 0
    ELSE (CHOOSE x \in NamedSessions(d, q.session) : TRUE).user

\* The row of the origin word a lookup or a contribution names, 0 when the
\* store has no such word; and the searches of the caller for that word and
\* the target language of the request.
OriginWord(d, q) ==
    First({w \in 1..Len(d.words) :
             d.words[w] = [word |-> decode_word(q.term), language |-> q.from]})
MatchingSearches(d, q) ==
    {i \in 1..Len(d.searches) :
        /\ d.searches[i].user = Caller(d, q)
        /\ d.searches[i].word = OriginWord(d, q)
        /\ d.searches[i].language = q.to}
\* The contributions no search links to.
Standalone(d) ==
    {c \in 1..Len(d.contributions) :
        \A i \in 1..Len(d.searches) : d.searches[i].contribution # c}
Links(d) == [i \in 1..Len(d.searches) |-> d.searches[i].contribution]

\* C1: a request to a protected route whose session parameter is absent, is
\* no integer or names no stored session is answered 401, and nothing of the
\* store changes, not even in the unit of work of the request.
C1_FailsClosed ==
    \A op \in ProtectedOps : \A q \in RequestsOf(op, db) :
        NamedSessions(db, q.session) = {} =>
            LET r == Result(q)
            IN  /\ r.status = 401
                /\ r.tx = Begin(db)

\* A store with sessions and searches, where a request that names no stored
\* session is answered 401.
C1_Witness ==
    /\ db.sessions # {}
    /\ db.searches # <<>>
    /\ \E q \in RequestsOf("contribute_with_context", db) :
         /\ q.session # <<>>
         /\ int(q.session[1]).ok
         /\ NamedSessions(db, q.session) = {}
         /\ q.fault = "none" /\ q.form = FullForm /\ q.from \in Languages /\ q.to \in Languages
         /\ Result(q).status = 401

\* C2: the token a successful add_user or get_session returns for an email,
\* presented to a protected route, passes the session check as the one user
\* registered under that email.
C2_TokenResolvesToUser ==
    \A op \in {"add_user", "get_session"} : \A q \in RequestsOf(op, db) :
        LET r == Result(q)
            after == r.tx.committed
        IN  (ends(r, q) /\ r.status = 200) =>
                LET g == with_session(Begin(after), <<r.body>>, RequestTime + 1)
                IN  /\ g.passed
                    /\ after.users[g.user].email = q.email
                    /\ \A u \in 1..Len(after.users) :
                          after.users[u].email = q.email => u = g.user

\* Two users are registered, and a login of the second one succeeds.
C2_Witness ==
    /\ Len(db.users) = 2
    /\ \E q \in RequestsOf("get_session", db) :
         /\ q.email = db.users[2].email
         /\ Ended(q)
         /\ Result(q).status = 200

\* C3: when the caller has a search for the origin word and the target
\* language, a successful contribute adds one contribution, links one of
\* those searches to it, and leaves it no standalone contribution.
C3_ContributeAttaches ==
    \A q \in RequestsOf("contribute_with_context", db) :
        LET r == Result(q)
            after == r.tx.committed
            matching == MatchingSearches(db, q)
            new == Len(after.contributions)
        IN  (r.status = 200 /\ matching # {}) =>
                /\ new = Len(db.contributions) + 1
                /\ \E i \in matching : after.searches[i].contribution = new
                /\ new \notin Standalone(after)

\* A search is linked to a contribution.
C3_Witness ==
    \E i \in 1..Len(db.searches) :
        /\ db.searches[i].contribution # 0
        /\ db.contributions[db.searches[i].contribution].user = db.searches[i].user

\* C4: when the caller has no search for the origin word and the target
\* language, a successful contribute adds exactly one contribution, which no
\* search links to, and changes the link of no search.
C4_ContributeStandalone ==
    \A q \in RequestsOf("contribute_with_context", db) :
        LET r == Result(q)
            after == r.tx.committed
        IN  (r.status = 200 /\ MatchingSearches(db, q) = {}) =>
                /\ Len(after.contributions) = Len(db.contributions) + 1
                /\ SubSeq(after.contributions, 1, Len(db.contributions)) = db.contributions
                /\ Len(after.contributions) \in Standalone(after)
                /\ Links(after) = Links(db)

\* The only contribution is standalone although there are searches, one of
\* them of the contributor.
C4_Witness ==
    /\ Len(db.contributions) = 1
    /\ Standalone(db) = {1}
    /\ \E i \in 1..Len(db.searches) : db.searches[i].user = db.contributions[1].user

\* The contributions that name the caller, the word and the target language
\* of the lookup l.
ContributionsFor(l) ==
    {[NoRequest EXCEPT !.op = "contribute_with_context", !.session = s, !.from = l.from,
                       !.term = w, !.to = l.to, !.translation = k, !.form = FullForm] :
        s \in {x \in SessionArgs : NamedSessions(db, x) = NamedSessions(db, l.session)},
        w \in {x \in Terms : decode_word(x) = decode_word(l.term)},
        k \in Translations}

\* C5: a successful contribute links the matching search with the greatest
\* id to the new contribution and leaves the link of every older matching
\* search as it was; and a contribute that follows a lookup of the same user
\* for the same word and target language links the search of that lookup.
C5_LatestSearch ==
    /\ \A q \in RequestsOf("contribute_with_context", db) :
          LET r == Result(q)
              after == r.tx.committed
              matching == MatchingSearches(db, q)
              latest == Last(matching)
          IN  (r.status = 200 /\ matching # {}) =>
                  /\ after.searches[latest].contribution = Len(after.contributions)
                  /\ \A i \in matching \ {latest} :
                        after.searches[i].contribution = db.searches[i].contribution
    /\ \A l \in RequestsOf("lookup", db) :
          LET looked == Result(l)
          IN  looked.status = 200 =>
                  \A q \in ContributionsFor(l) :
                      LET c == handle(looked.tx.committed, q, RequestTime + 1)
                          after == c.tx.committed
                      IN  c.status = 200 =>
                              after.searches[Len(looked.tx.committed.searches)].contribution
                                  = Len(after.contributions)

\* Two searches of one user for one word and one target language, the later
\* one linked to a contribution and the earlier one not.
C5_Witness ==
    \E i, j \in 1..Len(db.searches) :
        /\ i < j
        /\ db.searches[i].user = db.searches[j].user
        /\ db.searches[i].word = db.searches[j].word
        /\ db.searches[i].language = db.searches[j].language
        /\ db.searches[i].contribution = 0
        /\ db.searches[j].contribution # 0

\* C6: once a search is linked to a contribution, no request changes the
\* contribution it is linked to.
C6_LinkNeverChanges ==
    [][\A i \in 1..Len(db.searches) :
          db.searches[i].contribution # 0 =>
              db'.searches[i].contribution = db.searches[i].contribution]_vars

\* C7: no request removes a search or changes the user, the word or the
\* target language of one, and every successful lookup adds exactly one
\* search, of the caller, after every search there is, also when the caller
\* has a search for that word and target language already.
C7_AppendOnly ==
    \A q \in Requests(db) :
        LET r == Result(q)
            after == r.tx.committed
            old == Len(db.searches)
        IN  ends(r, q) =>
                /\ Len(after.searches) >= old
                /\ \A i \in 1..old :
                      /\ after.searches[i].user = db.searches[i].user
                      /\ after.searches[i].word = db.searches[i].word
                      /\ after.searches[i].language = db.searches[i].language
                /\ SubSeq(after.words, 1, Len(db.words)) = db.words
                /\ (q.op \in {"lookup", "lookup_preferred"} /\ r.status = 200) =>
                      /\ Len(after.searches) = old + 1
                      /\ after.searches[old + 1].user = Caller(db, q)

\* Two searches of one user for one word, one target language and no text.
C7_Witness ==
    \E i, j \in 1..Len(db.searches) :
        /\ i < j
        /\ db.searches[i] = db.searches[j]

\* C8: after a request to a protected route that passes the session check,
\* the stored use date of the session presented is the time of the request,
\* and every other stored session is as it was.
C8_UseDateStored ==
    \A op \in ProtectedOps : \A q \in RequestsOf(op, db) :
        NamedSessions(db, q.session) # {} =>
            LET after == After(q)
            IN  \A x \in after.sessions :
                    IF x \in NamedSessions(after, q.session)
                    THEN x.last_use = RequestTime
                    ELSE x \in db.sessions

\* C9: every stored contribution has its text stored, and a contribute that
\* fails stores no text and no contribution and changes the link of no
\* search.
C9_ContributeAtomic ==
    /\ \A c \in 1..Len(db.contributions) :
          db.contributions[c].text \in 1..Len(db.texts)
    /\ \A q \in RequestsOf("contribute_with_context", db) :
          LET r == Result(q)
              after == r.tx.committed
          IN  r.status # 200 =>
                  /\ after.texts = db.texts
                  /\ after.contributions = db.contributions
                  /\ Links(after) = Links(db)

\* A contribute fails after it has made its text and its contribution and
\* has linked a search to it, in a store that holds a contribution already.
C9_Witness ==
    /\ db.contributions # <<>>
    /\ \E q \in RequestsOf("contribute_with_context", db) :
         LET r == Result(q)
         IN  /\ r.status = 500
             /\ Len(r.tx.pending.texts) = Len(db.texts) + 1
             /\ Len(r.tx.pending.contributions) = Len(db.contributions) + 1
             /\ Links(r.tx.pending) # Links(db)
             /\ r.tx.committed = db

\* C10: a request that is not answered with its success response leaves the
\* committed store as it was.
C10_AllOrNothing ==
    \A q \in Requests(db) :
        LET r == Result(q)
        IN  (ends(r, q) /\ r.status # 200) => r.tx.committed = db

\* C11: whatever the interleaving of two lookups or contributions, the store
\* holds one Word row per text and language and one Url row per address, and
\* no request that succeeds on its own fails at its commit.
C11_OneRowPerWordAndUrl ==
    /\ \A i, j \in 1..Len(db.words) : db.words[i] = db.words[j] => i = j
    /\ \A i, j \in 1..Len(db.urls) : db.urls[i].url = db.urls[j].url => i = j
    /\ \A w \in Workers : flight[w].state = "done" => flight[w].status = 200

\* The users registered under an email, and those of them with a password.
RegisteredAs(d, email) == {u \in 1..Len(d.users) : d.users[u].email = email}
Matching(d, email, password) ==
    {u \in RegisteredAs(d, email) : d.users[u].password = password_hash(password)}

\* C12: a get_session whose email and password match no registered user is
\* answered 401 with no token, and adds no session, not even to the unit of
\* work of the request.
C12_BadCredentials ==
    \A q \in RequestsOf("get_session", db) :
        (q.password # <<>> /\ Matching(db, q.email, q.password[1]) = {}) =>
            LET r == Result(q)
            IN  /\ r.status = 401
                /\ r.body = <<>>
                /\ r.tx = Begin(db)

\* A user with a session is registered, and a login under that email with
\* another password is answered 401.
C12_Witness ==
    /\ db.sessions # {}
    /\ \E q \in RequestsOf("get_session", db) :
         /\ RegisteredAs(db, q.email) # {}
         /\ q.password = <<"q">>
         /\ Result(q).status = 401

\* C13: an add_user for an email that is registered is answered 400 with no
\* token, and the committed users and sessions are as they were.
C13_DuplicateRegistration ==
    \A q \in RequestsOf("add_user", db) :
        RegisteredAs(db, q.email) # {} =>
            LET r == Result(q)
            IN  /\ r.status = 400
                /\ r.body = <<>>
                /\ r.tx.committed = db

\* A user who has chosen a learned language, and a registration under that
\* email with that password, answered 400.
C13_Witness ==
    \E u \in 1..Len(db.users) :
        /\ db.users[u].learned_language_id # NoLanguage
        /\ \E q \in RequestsOf("add_user", db) :
             /\ q.email = db.users[u].email
             /\ q.password # <<>>
             /\ db.users[u].password = password_hash(q.password[1])
             /\ q.fault = "none"
             /\ Result(q).status = 400

\* C14: the token of a successful login or registration names no session the
\* store held before, and every session the store held is still there under
\* its id, as the only session of that id and for the same user.
C14_FreshTokens ==
    \A op \in {"add_user", "get_session"} : \A q \in RequestsOf(op, db) :
        LET r == Result(q)
            after == r.tx.committed
        IN  (ends(r, q) /\ r.status = 200) =>
                /\ NamedSessions(db, <<r.body>>) = {}
                /\ Cardinality(NamedSessions(after, <<r.body>>)) = 1
                /\ \A x \in db.sessions :
                      \A y \in NamedSessions(after, <<str(x.id)>>) :
                          y.id = x.id /\ y.user = x.user
                /\ \A x \in db.sessions : NamedSessions(after, <<str(x.id)>>) # {}

\* One user holds two sessions.
C14_Witness ==
    \E x, y \in db.sessions : x.id # y.id /\ x.user = y.user

\* C15: every response carries Access-Control-Allow-Origin.
C15_CorsOnEveryResponse ==
    \A q \in Requests(db) :
        LET r == Result(q)
        IN  ends(r, q) => r.cors

\* Whether a request names a language code that is no language.
NamesUnknownLanguage(q) ==
    IF q.op \in {"learned_language_set", "native_language_set"}
    THEN q.language_code \notin Languages
    ELSE q.from \notin Languages \/ q.to \notin Languages

\* C16: a request with a session that names an unknown language code is
\* answered 400 and commits nothing.
C16_UnknownLanguage ==
    \A op \in {"learned_language_set", "native_language_set", "lookup",
                "contribute_with_context"} :
        \A q \in RequestsOf(op, db) :
            (NamedSessions(db, q.session) # {} /\ NamesUnknownLanguage(q)) =>
                LET r == Result(q)
                IN  /\ r.status = 400
                    /\ r.tx.committed = db

\* The learned language of the caller of a request, NoLanguage without one.
LearnedLanguage(d, q) ==
    IF Caller(d, q) = 0 THEN NoLanguage ELSE d.users[Caller(d, q)].learned_language_id
\* The lookup with an explicit target that a lookup without target stands for,
\* and the contribution that follows it.
ExplicitLookup(q, language) == [q EXCEPT !.op = "lookup", !.to = language]
FollowingContribution(q, language) ==
    [NoRequest EXCEPT !.op = "contribute_with_context", !.session = q.session,
                      !.from = q.from, !.term = q.term, !.to = language,
                      !.translation = <<"k">>, !.form = FullForm]

\* C17: for a caller who has a learned language, a lookup without target is
\* answered as, and leaves the store as, the lookup that names the code of
\* that language; the search it adds has that language as target, and a
\* contribution of the caller for that word and that code is linked to it.
C17_PreferredLookup ==
    \A q \in RequestsOf("lookup_preferred", db) :
        LearnedLanguage(db, q) # NoLanguage =>
            LET learned == LearnedLanguage(db, q)
                r == Result(q)
                e == Result(ExplicitLookup(q, learned))
                after == r.tx.committed
                new == Len(db.searches) + 1
                c == handle(after, FollowingContribution(q, learned), now + 2)
            IN  /\ r.status = e.status
                /\ r.body = e.body
                /\ after = e.tx.committed
                /\ r.status = 200 =>
                      /\ Len(after.searches) = new
                      /\ after.searches[new].user = Caller(db, q)
                      /\ after.searches[new].language = learned
                      /\ c.status = 200
                      /\ c.tx.committed.searches[new].contribution =
                            Len(c.tx.committed.contributions)

\* A caller with a learned language and searches, whose lookup without target
\* succeeds.
C17_Witness ==
    /\ db.searches # <<>>
    /\ \E q \in RequestsOf("lookup_preferred", db) :
         /\ LearnedLanguage(db, q) # NoLanguage
         /\ Result(q).status = 200

\* Whether `after` holds the texts of `before` and behind them one more, of
\* the content and the language given.
OneMoreText(before, after, content, language) ==
    /\ Len(after.texts) = Len(before.texts) + 1
    /\ SubSeq(after.texts, 1, Len(before.texts)) = before.texts
    /\ after.texts[Len(after.texts)].content = content
    /\ after.texts[Len(after.texts)].language = language

C19_SearchAgreesWithContribution ==
    /\ \A i \in 1..Len(db.searches) :
          LET search == db.searches[i]
          IN  search.contribution # 0 =>
                  /\ search.contribution \in 1..Len(db.contributions)
                  /\ db.contributions[search.contribution].user = search.user
                  /\ db.contributions[search.contribution].origin = search.word
                  /\ db.words[db.contributions[search.contribution].translation].language
                        = search.language
    /\ \A c \in 1..Len(db.contributions) :
          /\ db.contributions[c].translation \in 1..Len(db.words)
          /\ db.contributions[c].text \in 1..Len(db.texts)

\* A linked search whose target language is not the language of its word.
C19_Witness ==
    \E i \in 1..Len(db.searches) :
        /\ db.searches[i].contribution # 0
        /\ db.words[db.searches[i].word].language # db.searches[i].language

\* What a user owns: the searches with their links, the contributions, and
\* the language settings.
OwnedBy(d, user) ==
    [searches |-> {<<i, d.searches[i]>> : i \in {j \in 1..Len(d.searches) :
                                                  d.searches[j].user = user}},
     contributions |-> {<<c, d.contributions[c]>> :
                           c \in {j \in 1..Len(d.contributions) :
                                    d.contributions[j].user = user}},
     languages |-> <<d.users[user].learned_language_id,
                     d.users[user].native_language_id>>]

\* C20: a request to a protected route leaves what every user other than
\* the caller owns as it was.
C20_UserIsolation ==
    \A op \in ProtectedOps : \A q \in RequestsOf(op, db) :
        Caller(db, q) # 0 =>
            LET after == After(q)
            IN  \/ after = db
                \/ \A other \in 1..Len(db.users) :
                      other # Caller(db, q) => OwnedBy(after, other) = OwnedBy(db, other)

\* Another user has a search for the word and the target language of a
\* contribution of the caller that succeeds.
C20_Witness ==
    \E q \in RequestsOf("contribute_with_context", db) :
        /\ Caller(db, q) # 0
        /\ Result(q).status = 200
        /\ \E i \in 1..Len(db.searches) :
             /\ db.searches[i].user # Caller(db, q)
             /\ db.searches[i].word = OriginWord(db, q)
             /\ db.searches[i].language = q.to

====
